---------------------------- MODULE Spec2Model ----------------------------
(***************************************************************************)
(* Model of the MOTION TAA v2 compute kernel (MotionTemporal.hlsl) that    *)
(* src/update_tm.py writes: CSMain, one thread per pixel.                  *)
(*                                                                         *)
(* Number representation.  HLSL floats are modelled as fixed-point         *)
(* integers: a motion component or a confidence v stands for v / ONE, and  *)
(* a blend weight a stands for a / ALPHA_ONE.  An operation whose exact    *)
(* result is not representable rounds to the nearest representable value   *)
(* (Round), as a float operation does.  length(v) is only ever compared    *)
(* with a threshold, so it is modelled by its square (LengthSq) compared   *)
(* with the squared threshold.  A vector is a pair <<x, y>>, a texture a   *)
(* function from texel coordinates <<x, y>> to values.                     *)
(***************************************************************************)
EXTENDS Integers, FiniteSets, Sequences, TLC

VARIABLES
    width, height,         \* MotionCurr.GetDimensions
    MotionCurr, ConfCurr,  \* t0, t1
    MotionHistory, ConfHistory,  \* t2, t3
    resetHistory,          \* TemporalCB.resetHistory
    MotionOut, ConfOut,    \* u0, u1
    pc,                    \* per thread: "ready", "conf" (MotionOut written), "done"
    regs,                  \* per thread: the locals of CSMain once it has run
    writes,                \* every store made so far: <<thread, texture, texel>>
    frame,                 \* number of dispatches completed by the frame loop
    MotionHistoryB, ConfHistoryB,  \* second run of the frame loop: its history
    MotionOutB, ConfOutB,          \* second run: its outputs
    resetSeen,             \* some frame so far had resetHistory set
    zeroRun                \* history began (0,0)/1.0 and every frame's input was (0,0)/1.0

vars == <<width, height, MotionCurr, ConfCurr, MotionHistory, ConfHistory,
          resetHistory, MotionOut, ConfOut, pc, regs, writes, frame,
          MotionHistoryB, ConfHistoryB, MotionOutB, ConfOutB, resetSeen, zeroRun>>

---------------------------------------------------------------------------
(* Bounds of the model *)

GridW == 3
GridH == 3
DispatchW == 2
DispatchH == 1
NumThreads == 2
MaxFrames == 3

---------------------------------------------------------------------------
(* Fixed-point constants of the kernel *)

\* 1.0 as a motion component or confidence (hundredths)
ONE == 100
\* 1.0 as a blend weight (thousandths)
ALPHA_ONE == 1000
\* float alpha = 0.94
ALPHA_BASE == 940
\* alpha = 0.8
ALPHA_MID == 800
\* alpha = 0.5
ALPHA_LOW == 500
\* diffLen > 2.0
DIFF_MID == 200
\* diffLen > 10.0
DIFF_HIGH == 1000
\* currConf > 0.9
CONF_HIGH == 90
\* historyConf < 0.2
CONF_LOW == 20
\* length(finalMotion) < 0.1
DEADZONE == 10

Zero2 == <<0, 0>>

Min(a, b) == IF a < b THEN a ELSE b
Max(a, b) == IF a > b THEN a ELSE b

\* n / d rounded to the nearest integer (d > 0)
Round(n, d) == (2 * n + d) \div (2 * d)

\* componentwise min / max / clamp of float2 (HLSL intrinsics)
Min2(a, b) == <<Min(a[1], b[1]), Min(a[2], b[2])>>
Max2(a, b) == <<Max(a[1], b[1]), Max(a[2], b[2])>>
ClampI(v, lo, hi) == Min(Max(v, lo), hi)
Clamp2(v, lo, hi) == Min2(Max2(v, lo), hi)

\* length(v)^2
LengthSq(v) == v[1] * v[1] + v[2] * v[2]

Texels(w, h) == (0 .. w - 1) \X (0 .. h - 1)

\* Texture2D.Load: an out-of-range texel reads as zero
Load2(T, p) == IF p \in DOMAIN T THEN T[p] ELSE Zero2
Load1(T, p) == IF p \in DOMAIN T THEN T[p] ELSE 0


---------------------------------------------------------------------------
(* CSMain, step by step *)

\* mutant: off by one, the thread just past the bottom edge runs
OutOfGrid_OffByOne(id, w, h) == id[1] >= w \/ id[2] > h

\* if (id.x >= width || id.y >= height) return;
OutOfGrid(id, w, h) == id[1] >= w \/ id[2] >= h

\* mutant: neighbour coordinates wrap around instead of clamping
NeighbourPos_Wraps(id, x, y, w, h) == <<(id[1] + x) % w, (id[2] + y) % h>>

\* int2 nPos = id.xy + int2(x, y); nPos = clamp(nPos, int2(0,0), int2(width-1, height-1));
\* (uint + int wraps modulo 2^32 and is read back as an int: for these
\* magnitudes that is the signed sum, so id.x = 0, x = -1 gives -1)
NeighbourPos(id, x, y, w, h) ==
    <<ClampI(id[1] + x, 0, w - 1), ClampI(id[2] + y, 0, h - 1)>>

\* the texels the two [unroll] loops read, in loop order (y outer, x inner)
NeighbourSeq(id, w, h) ==
    [i \in 1 .. 9 |-> NeighbourPos(id, ((i - 1) % 3) - 1, ((i - 1) \div 3) - 1, w, h)]

RECURSIVE MinFold(_, _, _, _)
\* minMotion after the first n loop iterations
MinFold(MC, nbrs, n, acc) ==
    IF n > Len(nbrs) THEN acc
    ELSE MinFold(MC, nbrs, n + 1, Min2(acc, Load2(MC, nbrs[n])))

RECURSIVE MaxFold(_, _, _, _)
\* maxMotion after the first n loop iterations
MaxFold(MC, nbrs, n, acc) ==
    IF n > Len(nbrs) THEN acc
    ELSE MaxFold(MC, nbrs, n + 1, Max2(acc, Load2(MC, nbrs[n])))

\* float2 minMotion = currMotion; ... minMotion = min(minMotion, nMotion);
MinMotion(MC, id, w, h) == MinFold(MC, NeighbourSeq(id, w, h), 1, Load2(MC, id))

\* float2 maxMotion = currMotion; ... maxMotion = max(maxMotion, nMotion);
MaxMotion(MC, id, w, h) == MaxFold(MC, NeighbourSeq(id, w, h), 1, Load2(MC, id))

\* float2 historyUV = uv - (currMotion * texelSize), with uv = (id + 0.5) * texelSize.
\* Held multiplied by (width, height), i.e. in pixels, so that it is exact:
\* historyUV in [0,1] is HistoryUV in [0, ONE * (width, height)].
HistoryUV(id, currMotion) ==
    <<ONE * id[1] + ONE \div 2 - currMotion[1], ONE * id[2] + ONE \div 2 - currMotion[2]>>

\* mutant: only the upper bound of historyUV is tested
ValidHistory_UpperOnly(reset, hUV, w, h) ==
    IF hUV[1] > ONE * w \/ hUV[2] > ONE * h THEN FALSE ELSE ~reset

\* mutant: the reset flag is not consulted
ValidHistory_IgnoresReset(reset, hUV, w, h) ==
    ~(hUV[1] < 0 \/ hUV[2] < 0 \/ hUV[1] > ONE * w \/ hUV[2] > ONE * h)

\* bool validHistory = !resetHistory; if (historyUV outside [0,1]) validHistory = false;
ValidHistory(reset, hUV, w, h) ==
    IF hUV[1] < 0 \/ hUV[2] < 0 \/ hUV[1] > ONE * w \/ hUV[2] > ONE * h
    THEN FALSE
    ELSE ~reset

\* One axis of a LinearClamp fetch: the two texels and the weight of the second.
\* Texel i has its centre at (i + 0.5) / size.
LinearAxis(u, size) ==
    LET t == u - ONE \div 2
        i0 == t \div ONE
    IN  [lo |-> ClampI(i0, 0, size - 1), hi |-> ClampI(i0 + 1, 0, size - 1), f |-> t % ONE]

\* bilinear weight of four scalar texels
Bilinear(t00, t10, t01, t11, fx, fy) ==
    Round((t00 * (ONE - fx) + t10 * fx) * (ONE - fy) + (t01 * (ONE - fx) + t11 * fx) * fy,
          ONE * ONE)

\* ConfHistory.SampleLevel(LinearClamp, historyUV, 0)
SampleLevel1(T, hUV, w, h) ==
    LET ax == LinearAxis(hUV[1], w)
        ay == LinearAxis(hUV[2], h)
    IN  Bilinear(T[<<ax.lo, ay.lo>>], T[<<ax.hi, ay.lo>>],
                 T[<<ax.lo, ay.hi>>], T[<<ax.hi, ay.hi>>], ax.f, ay.f)

\* MotionHistory.SampleLevel(LinearClamp, historyUV, 0)
SampleLevel2(T, hUV, w, h) ==
    LET ax == LinearAxis(hUV[1], w)
        ay == LinearAxis(hUV[2], h)
        c(k) == Bilinear(T[<<ax.lo, ay.lo>>][k], T[<<ax.hi, ay.lo>>][k],
                         T[<<ax.lo, ay.hi>>][k], T[<<ax.hi, ay.hi>>][k], ax.f, ay.f)
    IN  <<c(1), c(2)>>

\* mutant: the sampled history is used as it is
ClampedHistory_Unclamped(historyMotion, minMotion, maxMotion) == historyMotion

\* float2 clampedHistory = clamp(historyMotion, minMotion, maxMotion);
ClampedHistory(historyMotion, minMotion, maxMotion) ==
    Clamp2(historyMotion, minMotion, maxMotion)

\* mutant: the two threshold tests in the other order, so the first one wins
AlphaDiff_Swapped(diffLenSq) ==
    LET a0 == ALPHA_BASE
        a1 == IF diffLenSq > DIFF_HIGH * DIFF_HIGH THEN ALPHA_LOW ELSE a0
        a2 == IF diffLenSq > DIFF_MID * DIFF_MID THEN ALPHA_MID ELSE a1
    IN  a2

\* float alpha = 0.94; if (diffLen > 2.0) alpha = 0.8; if (diffLen > 10.0) alpha = 0.5;
AlphaDiff(diffLenSq) ==
    LET a0 == ALPHA_BASE
        a1 == IF diffLenSq > DIFF_MID * DIFF_MID THEN ALPHA_MID ELSE a0
        a2 == IF diffLenSq > DIFF_HIGH * DIFF_HIGH THEN ALPHA_LOW ELSE a1
    IN  a2

\* if (currConf > 0.9) alpha *= 0.9;
AlphaConf(a, currConf) == IF currConf > CONF_HIGH THEN (a * 9) \div 10 ELSE a

\* mutant: a low-confidence history is kept
AlphaReset_Keeps(a, historyConf) == a

\* if (historyConf < 0.2) alpha = 0.0;
AlphaReset(a, historyConf) == IF historyConf < CONF_LOW THEN 0 ELSE a

\* the blend weight of step 4
Alpha(diffLenSq, currConf, historyConf) ==
    AlphaReset(AlphaConf(AlphaDiff(diffLenSq), currConf), historyConf)

\* mutant: the subtraction is forgotten
Lerp1_NoSubtract(a, b, t) == a + Round(b * t, ALPHA_ONE)

\* lerp(a, b, t) = a + (b - a) * t
Lerp1(a, b, t) == a + Round((b - a) * t, ALPHA_ONE)
Lerp2(a, b, t) == <<Lerp1(a[1], b[1], t), Lerp1(a[2], b[2], t)>>

\* mutant: no deadzone
Deadzone_Off(finalMotion) == finalMotion

\* if (length(finalMotion) < 0.1) finalMotion = float2(0, 0);
Deadzone(finalMotion) ==
    IF LengthSq(finalMotion) < DEADZONE * DEADZONE THEN Zero2 ELSE finalMotion

\* The locals of one thread of CSMain and what it stores.
\* path: "skipped" (out of the grid), "passthrough" (!validHistory), "blend".
CSMain(id, w, h, MC, CC, MH, CH, reset) ==
    LET currMotion == Load2(MC, id)
        currConf == Load1(CC, id)
        minMotion == MinMotion(MC, id, w, h)
        maxMotion == MaxMotion(MC, id, w, h)
        historyUV == HistoryUV(id, currMotion)
        validHistory == ValidHistory(reset, historyUV, w, h)
        historyMotion == SampleLevel2(MH, historyUV, w, h)
        historyConf == SampleLevel1(CH, historyUV, w, h)
        clampedHistory == ClampedHistory(historyMotion, minMotion, maxMotion)
        diff == <<clampedHistory[1] - currMotion[1], clampedHistory[2] - currMotion[2]>>
        diffLenSq == LengthSq(diff)
        alpha == Alpha(diffLenSq, currConf, historyConf)
        blendMotion == Lerp2(currMotion, clampedHistory, alpha)
        finalConf == Lerp1(currConf, historyConf, alpha)
        finalMotion == Deadzone(blendMotion)
        none == [path |-> "skipped", nPos |-> {}, currMotion |-> Zero2, currConf |-> 0,
                 minMotion |-> Zero2, maxMotion |-> Zero2, historyUV |-> Zero2,
                 historyMotion |-> Zero2, historyConf |-> 0, clampedHistory |-> Zero2,
                 diffLenSq |-> 0, alpha |-> 0, blendMotion |-> Zero2,
                 motionOut |-> Zero2, confOut |-> 0]
        read == [none EXCEPT !.nPos = {NeighbourSeq(id, w, h)[i] : i \in 1 .. 9},
                             !.currMotion = currMotion, !.currConf = currConf,
                             !.minMotion = minMotion, !.maxMotion = maxMotion,
                             !.historyUV = historyUV]
    IN  IF OutOfGrid(id, w, h) THEN none
        ELSE IF ~validHistory
        THEN [read EXCEPT !.path = "passthrough",
                          !.motionOut = currMotion, !.confOut = currConf]
        ELSE [read EXCEPT !.path = "blend",
                          !.historyMotion = historyMotion, !.historyConf = historyConf,
                          !.clampedHistory = clampedHistory, !.diffLenSq = diffLenSq,
                          !.alpha = alpha, !.blendMotion = blendMotion,
                          !.motionOut = finalMotion, !.confOut = finalConf]

---------------------------------------------------------------------------
(* The dispatch: one thread per id, [numthreads(NumThreads, NumThreads, 1)] *)

\* thread groups cover the grid: ids run up to the next multiple of NumThreads
GroupCover(n) == ((n + NumThreads - 1) \div NumThreads) * NumThreads
ThreadIds(w, h) == (0 .. GroupCover(w) - 1) \X (0 .. GroupCover(h) - 1)

\* RWTexture2D store: a store outside the texture is dropped
Store(T, p, v, w, h) == IF p \in Texels(w, h) THEN (p :> v) @@ T ELSE T

\* one more store event e in the log
Logged(log, e) ==
    IF e \in DOMAIN log THEN [log EXCEPT ![e] = @ + 1] ELSE (e :> 1) @@ log

\* CSMain up to and including "MotionOut[id.xy] = ..." (or the early return)
Run(t) ==
    /\ pc[t] = "ready"
    /\ LET r == CSMain(t, width, height, MotionCurr, ConfCurr,
                       MotionHistory, ConfHistory, resetHistory)
       IN  /\ regs' = [regs EXCEPT ![t] = r]
           /\ IF r.path = "skipped"
              THEN /\ pc' = [pc EXCEPT ![t] = "done"]
                   /\ UNCHANGED <<MotionOut, writes>>
              ELSE /\ pc' = [pc EXCEPT ![t] = "conf"]
                   /\ MotionOut' = Store(MotionOut, t, r.motionOut, width, height)
                   /\ writes' = Logged(writes, <<t, "MotionOut", t>>)
    /\ UNCHANGED <<width, height, MotionCurr, ConfCurr, MotionHistory, ConfHistory,
                   resetHistory, ConfOut, frame, MotionHistoryB, ConfHistoryB,
                   MotionOutB, ConfOutB, resetSeen, zeroRun>>

\* "ConfOut[id.xy] = ..." and the return
StoreConf(t) ==
    /\ pc[t] = "conf"
    /\ ConfOut' = Store(ConfOut, t, regs[t].confOut, width, height)
    /\ writes' = Logged(writes, <<t, "ConfOut", t>>)
    /\ pc' = [pc EXCEPT ![t] = "done"]
    /\ UNCHANGED <<width, height, MotionCurr, ConfCurr, MotionHistory, ConfHistory,
                   resetHistory, MotionOut, regs, frame, MotionHistoryB, ConfHistoryB,
                   MotionOutB, ConfOutB, resetSeen, zeroRun>>

\* the locals of a thread that has not run
NoRegs == CSMain(<<0, 0>>, 0, 0, <<>>, <<>>, <<>>, <<>>, TRUE)

\* state of a dispatch over w x h textures before any thread has run
Dispatched(w, h) ==
    /\ width = w
    /\ height = h
    /\ MotionOut = <<>>
    /\ ConfOut = <<>>
    /\ pc = [t \in ThreadIds(w, h) |-> "ready"]
    /\ regs = [t \in ThreadIds(w, h) |-> NoRegs]
    /\ writes = <<>>

\* the variables of the frame loop, unused within one dispatch
NoFrames ==
    /\ frame = 0
    /\ MotionHistoryB = <<>>
    /\ ConfHistoryB = <<>>
    /\ MotionOutB = <<>>
    /\ ConfOutB = <<>>
    /\ resetSeen = FALSE
    /\ zeroRun = FALSE

---------------------------------------------------------------------------
(* Inputs *)

CurrVals == {<<0, 0>>, <<5, 0>>, <<12, 0>>, <<-150, 50>>, <<1200, 800>>}
HistVals == {<<0, 0>>, <<200, 0>>, <<600, 800>>, <<1500, 0>>}
CurrConfVals == {50, 90, 95}
HistConfVals == {10, 20, 95}
HotPos == {<<0, 0>>, <<1, 1>>}

Uniform(w, h, v) == [p \in Texels(w, h) |-> v]

\* bg everywhere but hot at one texel
CurrGrids(w, h) ==
    {[p \in Texels(w, h) |-> IF p = c[3] THEN c[2] ELSE c[1]] :
        c \in CurrVals \X CurrVals \X HotPos}

\* a ramp: a history field that differs from texel to texel
Ramp(w, h) == [p \in Texels(w, h) |-> <<60 * p[1], 30 * p[2] - 40>>]

HistGrids(w, h) == {Uniform(w, h, v) : v \in HistVals} \cup {Ramp(w, h)}

---------------------------------------------------------------------------
(* Spec: CSMain as a function of its inputs; one thread runs per behaviour *)

Init ==
    /\ Dispatched(GridW, GridH)
    /\ NoFrames
    /\ MotionCurr \in CurrGrids(GridW, GridH)
    /\ ConfCurr \in {Uniform(GridW, GridH, c) : c \in CurrConfVals}
    /\ MotionHistory \in HistGrids(GridW, GridH)
    /\ ConfHistory \in {Uniform(GridW, GridH, c) : c \in HistConfVals}
    /\ resetHistory \in BOOLEAN

RunOne(t) ==
    /\ \A u \in DOMAIN pc : pc[u] = "ready"
    /\ Run(t)

Next ==
    \/ \E t \in DOMAIN pc : RunOne(t)
    \/ \E t \in DOMAIN pc : StoreConf(t)

Spec == Init /\ [][Next]_vars

---------------------------------------------------------------------------
(* Vocabulary of the properties, stated on the textures and not through CSMain *)

\* threads inside the grid that have stored their motion / both outputs
Stored == {t \in DOMAIN pc : t \in Texels(width, height) /\ pc[t] # "ready"}
Finished == {t \in Stored : pc[t] = "done"}

\* uv - currMotion * texelSize leaves [0,1] in some axis (both sides times 2 * ONE * size)
UVOutside(t) ==
    LET m == MotionCurr[t]
        ux == (2 * t[1] + 1) * ONE - 2 * m[1]
        uy == (2 * t[2] + 1) * ONE - 2 * m[2]
    IN  ux < 0 \/ uy < 0 \/ ux > 2 * ONE * width \/ uy > 2 * ONE * height

HistoryValid(t) == ~resetHistory /\ ~UVOutside(t)

\* component k of currMotion over the 3x3 block around t, coordinates clamped to the grid
Block(t, k) ==
    {MotionCurr[<<ClampI(t[1] + dx, 0, width - 1), ClampI(t[2] + dy, 0, height - 1)>>][k] :
        dx \in -1 .. 1, dy \in -1 .. 1}
BoxLo(t) == <<CHOOSE m \in Block(t, 1) : \A v \in Block(t, 1) : m <= v,
              CHOOSE m \in Block(t, 2) : \A v \in Block(t, 2) : m <= v>>
BoxHi(t) == <<CHOOSE m \in Block(t, 1) : \A v \in Block(t, 1) : m >= v,
              CHOOSE m \in Block(t, 2) : \A v \in Block(t, 2) : m >= v>>
Within(v, lo, hi) == lo[1] <= v[1] /\ v[1] <= hi[1] /\ lo[2] <= v[2] /\ v[2] <= hi[2]

---------------------------------------------------------------------------
(* C1 *)

\* C1: passthrough. For every in-grid pixel, if resetHistory is set or historyUV
\* lies outside [0,1] in either axis, the stored motion is currMotion and the stored
\* confidence is currConf, whatever the history textures hold and however small
\* currMotion is: neither clamp, blend nor deadzone touches them.
C1_Passthrough ==
    \A t \in Stored :
        (resetHistory \/ UVOutside(t)) =>
            /\ MotionOut[t] = MotionCurr[t]
            /\ t \in Finished => ConfOut[t] = ConfCurr[t]

\* a reset frame stored a non-zero motion below the deadzone, over a history that differs
C1_Witness ==
    \E t \in Finished :
        /\ resetHistory
        /\ MotionCurr[t] = <<5, 0>>
        /\ MotionOut[t] = <<5, 0>>
        /\ ConfOut[t] = ConfCurr[t]
        /\ MotionHistory[t] # MotionCurr[t]
        /\ ConfHistory[t] # ConfCurr[t]

---------------------------------------------------------------------------
(* C2 *)

\* C2 as stated: history discard. For every pixel with valid history whose sampled
\* historyConf < 0.2, the stored motion and confidence are exactly currMotion and
\* currConf, for every currMotion.
C2_DiscardStoresCurrent ==
    \A t \in Stored :
        (HistoryValid(t) /\ regs[t].historyConf < CONF_LOW) =>
            /\ MotionOut[t] = MotionCurr[t]
            /\ t \in Finished => ConfOut[t] = ConfCurr[t]

\* C2 as amended: with valid history and sampled historyConf < 0.2 the blend gives
\* finalMotion = currMotion and finalConf = currConf; the stored confidence is
\* currConf, and the stored motion is currMotion when |currMotion| >= 0.1 and (0,0)
\* when |currMotion| < 0.1 (the deadzone still applies).
C2_DiscardThenDeadzone ==
    \A t \in Stored :
        (HistoryValid(t) /\ regs[t].historyConf < CONF_LOW) =>
            /\ regs[t].blendMotion = MotionCurr[t]
            /\ MotionOut[t] = IF LengthSq(MotionCurr[t]) < DEADZONE * DEADZONE
                              THEN Zero2 ELSE MotionCurr[t]
            /\ t \in Finished => ConfOut[t] = ConfCurr[t]

\* a low-confidence history that agrees poorly with a current motion of 0.12 is dropped
C2_Witness ==
    \E t \in Finished :
        /\ HistoryValid(t)
        /\ regs[t].historyConf < CONF_LOW
        /\ MotionCurr[t] = <<12, 0>>
        /\ regs[t].clampedHistory # MotionCurr[t]
        /\ MotionOut[t] = <<12, 0>>
        /\ ConfOut[t] = ConfCurr[t]

---------------------------------------------------------------------------
(* C5 *)

\* C5: clamp containment. For every in-grid pixel, corners and edges included, the
\* 3x3 loop reads only texels of the grid, minMotion / maxMotion are the componentwise
\* min / max of currMotion over the block with edge-clamped coordinates, currMotion
\* lies between them, and on the valid-history path so does clampedHistory.
C5_ClampContainment ==
    \A t \in Stored :
        /\ regs[t].nPos \subseteq Texels(width, height)
        /\ regs[t].minMotion = BoxLo(t)
        /\ regs[t].maxMotion = BoxHi(t)
        /\ Within(MotionCurr[t], regs[t].minMotion, regs[t].maxMotion)
        /\ HistoryValid(t) =>
               Within(regs[t].clampedHistory, regs[t].minMotion, regs[t].maxMotion)

\* a corner pixel whose sampled history lies outside a box that is not a point
C5_Witness ==
    \E t \in Stored :
        /\ t = <<0, 0>>
        /\ HistoryValid(t)
        /\ regs[t].minMotion # regs[t].maxMotion
        /\ ~Within(regs[t].historyMotion, regs[t].minMotion, regs[t].maxMotion)
        /\ regs[t].clampedHistory # regs[t].historyMotion

---------------------------------------------------------------------------
(* C6 *)

\* C6: deadzone. On the blend path, with finalMotion = lerp(currMotion,
\* clampedHistory, alpha): if its magnitude is < 0.1 the stored motion is (0,0),
\* otherwise it is stored unchanged; the stored confidence is
\* lerp(currConf, historyConf, alpha) in both cases.
C6_Deadzone ==
    \A t \in Stored :
        HistoryValid(t) =>
            LET r == regs[t]
                blended == Lerp2(r.currMotion, r.clampedHistory, r.alpha)
            IN  /\ LengthSq(blended) < DEADZONE * DEADZONE => MotionOut[t] = Zero2
                /\ LengthSq(blended) >= DEADZONE * DEADZONE => MotionOut[t] = blended
                /\ t \in Finished =>
                       ConfOut[t] = Lerp1(r.currConf, r.historyConf, r.alpha)

\* a blended motion that is not zero but shorter than 0.1 was stored as (0,0)
C6_Witness ==
    \E t \in Finished :
        /\ HistoryValid(t)
        /\ regs[t].alpha > 0
        /\ regs[t].blendMotion # Zero2
        /\ LengthSq(regs[t].blendMotion) < DEADZONE * DEADZONE
        /\ MotionOut[t] = Zero2

---------------------------------------------------------------------------
(* C8 *)

AlphaValues == {0, 450, 500, 720, 800, 846, 940}

\* C8: the blend weight is a step function. On the valid-history path alpha = 0 if
\* historyConf < 0.2; otherwise base * k with base = 0.5 if diffLen > 10, else 0.8
\* if diffLen > 2, else 0.94 (strict comparisons, diffLen = |clampedHistory -
\* currMotion|) and k = 0.9 if currConf > 0.9, else 1.  So alpha is one of
\* 0, 0.45, 0.5, 0.72, 0.8, 0.846, 0.94.
C8_AlphaStep ==
    \A t \in Stored :
        HistoryValid(t) =>
            LET r == regs[t]
                dx == r.clampedHistory[1] - MotionCurr[t][1]
                dy == r.clampedHistory[2] - MotionCurr[t][2]
                dd == dx * dx + dy * dy
                base == IF dd > 1000 * 1000 THEN 500
                        ELSE IF dd > 200 * 200 THEN 800 ELSE 940
                scaled == IF ConfCurr[t] > 90 THEN (base * 9) \div 10 ELSE base
            IN  /\ r.alpha = IF r.historyConf < 20 THEN 0 ELSE scaled
                /\ r.alpha \in AlphaValues
                /\ 0 <= r.alpha /\ r.alpha <= ALPHA_ONE

\* diffLen > 10 with a confident current frame: alpha = 0.5 * 0.9
C8_Witness ==
    \E t \in Stored :
        /\ HistoryValid(t)
        /\ regs[t].diffLenSq > DIFF_HIGH * DIFF_HIGH
        /\ ConfCurr[t] > CONF_HIGH
        /\ regs[t].historyConf >= CONF_LOW
        /\ regs[t].alpha = 450

---------------------------------------------------------------------------
(* C10 *)

\* C10: the stored motion stays in the current frame's box. For every in-grid pixel,
\* on either path and for every history, the stored motion is (0,0) or lies
\* componentwise within [minMotion, maxMotion] of the edge-clamped 3x3 block.
C10_OutputInBox ==
    \A t \in Stored :
        MotionOut[t] = Zero2 \/ Within(MotionOut[t], BoxLo(t), BoxHi(t))

\* a history outside the box was blended in: the stored motion is neither
\* currMotion nor zero, and is in the box
C10_Witness ==
    \E t \in Stored :
        /\ HistoryValid(t)
        /\ ~Within(regs[t].historyMotion, BoxLo(t), BoxHi(t))
        /\ MotionOut[t] # MotionCurr[t]
        /\ MotionOut[t] # Zero2
        /\ Within(MotionOut[t], BoxLo(t), BoxHi(t))

---------------------------------------------------------------------------
(* C3: the concrete scenario of the specification *)

\* the eight neighbours of texel (2,2)
ScenarioNeighbours == {p \in (1 .. 3) \X (1 .. 3) : p # <<2, 2>>}

\* 4x4 grid, currMotion (3,0) everywhere but one neighbour of (2,2) at (1,0),
\* history (5,0) with confidence 0.95 everywhere, no reset
InitScenario ==
    /\ Dispatched(4, 4)
    /\ NoFrames
    /\ \E n \in ScenarioNeighbours :
           MotionCurr = [p \in Texels(4, 4) |-> IF p = n THEN <<100, 0>> ELSE <<300, 0>>]
    /\ ConfCurr \in {Uniform(4, 4, c) : c \in CurrConfVals}
    /\ MotionHistory = Uniform(4, 4, <<500, 0>>)
    /\ ConfHistory = Uniform(4, 4, 95)
    /\ resetHistory = FALSE

SpecScenario == InitScenario /\ [][Next]_vars

\* C3 as stated: in the scenario, pixel (2,2) takes the history path (historyUV in
\* bounds), with minMotion = (1,0), maxMotion = (3,0), clampedHistory = (3,0),
\* diffLen = 0, alpha = 0.94 (times 0.9 when currConf > 0.9), and stores (3,0).
C3_ScenarioBlends ==
    pc[<<2, 2>>] # "ready" =>
        LET r == regs[<<2, 2>>]
        IN  /\ ~UVOutside(<<2, 2>>)
            /\ r.path = "blend"
            /\ r.minMotion = <<100, 0>> /\ r.maxMotion = <<300, 0>>
            /\ r.clampedHistory = <<300, 0>>
            /\ r.diffLenSq = 0
            /\ r.alpha = (IF ConfCurr[<<2, 2>>] > 90 THEN 846 ELSE 940)
            /\ MotionOut[<<2, 2>>] = <<300, 0>>

\* C3 as amended: in the scenario historyUV = (-0.125, 0.625), i.e. (-0.5, 2.5)
\* pixels, so pixel
\* (2,2) takes the passthrough path: minMotion = (1,0), maxMotion = (3,0), no
\* history is sampled, and it stores currMotion = (3,0) (no deadzone reset) and
\* currConf.
C3_ScenarioPassesThrough ==
    pc[<<2, 2>>] # "ready" =>
        LET r == regs[<<2, 2>>]
        IN  /\ UVOutside(<<2, 2>>)
            /\ r.historyUV = <<-50, 250>>
            /\ r.path = "passthrough"
            /\ r.minMotion = <<100, 0>> /\ r.maxMotion = <<300, 0>>
            /\ MotionOut[<<2, 2>>] = <<300, 0>>
            /\ pc[<<2, 2>>] = "done" => ConfOut[<<2, 2>>] = ConfCurr[<<2, 2>>]

\* thread (2,2) of the scenario has stored both outputs
C3_Witness ==
    /\ width = 4 /\ height = 4
    /\ pc[<<2, 2>>] = "done"
    /\ MotionCurr[<<2, 2>>] = <<300, 0>>
    /\ MotionCurr[<<1, 2>>] = <<100, 0>>
    /\ MotionOut[<<2, 2>>] = <<300, 0>>
    /\ ConfOut[<<2, 2>>] = 50

---------------------------------------------------------------------------
(* C7: one dispatch, its threads interleaved *)

\* what a whole dispatch leaves in MotionOut / ConfOut
DispatchResult(w, h, MC, CC, MH, CH, reset) ==
    [motion |-> [p \in Texels(w, h) |-> CSMain(p, w, h, MC, CC, MH, CH, reset).motionOut],
     conf |-> [p \in Texels(w, h) |-> CSMain(p, w, h, MC, CC, MH, CH, reset).confOut]]

DispatchCurrVals == {<<5, 0>>, <<-150, 50>>}

DispatchCurrGrids(w, h) ==
    {[p \in Texels(w, h) |-> IF p = <<0, 0>> THEN c[2] ELSE c[1]] :
        c \in DispatchCurrVals \X DispatchCurrVals}

InitDispatch ==
    /\ Dispatched(DispatchW, DispatchH)
    /\ NoFrames
    /\ MotionCurr \in DispatchCurrGrids(DispatchW, DispatchH)
    /\ ConfCurr = Uniform(DispatchW, DispatchH, 95)
    /\ MotionHistory = Ramp(DispatchW, DispatchH)
    /\ ConfHistory = Uniform(DispatchW, DispatchH, 50)
    /\ resetHistory \in BOOLEAN

NextDispatch ==
    \/ \E t \in DOMAIN pc : Run(t)
    \/ \E t \in DOMAIN pc : StoreConf(t)

SpecDispatch == InitDispatch /\ [][NextDispatch]_vars

AllDone == \A t \in DOMAIN pc : pc[t] = "done"

\* C7: order independence. Whatever the interleaving, every store is made by a
\* thread inside the grid to its own texel, at most once per texture; a thread
\* outside the grid stores nothing; a thread that is done has stored both outputs;
\* and every stored value, and so the grids once all threads are done, is the one
\* function of the inputs.
C7_OrderIndependent ==
    LET out == DispatchResult(width, height, MotionCurr, ConfCurr,
                              MotionHistory, ConfHistory, resetHistory)
    IN  /\ \A e \in DOMAIN writes :
               /\ e[1] \in Texels(width, height)
               /\ e[3] = e[1]
               /\ writes[e] = 1
        /\ \A t \in DOMAIN pc :
               t \in Texels(width, height) =>
                   /\ <<t, "MotionOut", t>> \in DOMAIN writes <=> pc[t] # "ready"
                   /\ <<t, "ConfOut", t>> \in DOMAIN writes <=> pc[t] = "done"
        /\ \A p \in DOMAIN MotionOut : MotionOut[p] = out.motion[p]
        /\ \A p \in DOMAIN ConfOut : ConfOut[p] = out.conf[p]
        /\ AllDone => MotionOut = out.motion /\ ConfOut = out.conf

\* every thread is done, some outside the grid, and some pixel blended history in
C7_Witness ==
    /\ AllDone
    /\ \E t \in DOMAIN pc : t \notin Texels(width, height)
    /\ \E t \in DOMAIN pc : regs[t].path = "blend" /\ MotionOut[t] # MotionCurr[t]
    /\ DOMAIN MotionOut = Texels(width, height)
    /\ DOMAIN ConfOut = Texels(width, height)

---------------------------------------------------------------------------
(* C4, C9: the frame loop, run twice on the same inputs from two histories *)

FrameCurrGrids(w, h) ==
    {Uniform(w, h, Zero2),
     [p \in Texels(w, h) |-> IF p = <<1, 1>> THEN <<100, 0>> ELSE <<-30, 20>>]}
FrameConfVals == {ONE, 50}
FrameHistGrids(w, h) == {Uniform(w, h, Zero2), Ramp(w, h)}
FrameHistConfVals == {ONE, 10}

InitFrames ==
    /\ width = GridW
    /\ height = GridH
    /\ frame = 0
    /\ MotionCurr = <<>> /\ ConfCurr = <<>> /\ resetHistory = FALSE
    /\ MotionOut = <<>> /\ ConfOut = <<>>
    /\ MotionOutB = <<>> /\ ConfOutB = <<>>
    /\ pc = <<>> /\ regs = <<>> /\ writes = <<>>
    /\ MotionHistory \in FrameHistGrids(GridW, GridH)
    /\ ConfHistory \in {Uniform(GridW, GridH, c) : c \in FrameHistConfVals}
    /\ MotionHistoryB \in FrameHistGrids(GridW, GridH)
    /\ ConfHistoryB \in {Uniform(GridW, GridH, c) : c \in FrameHistConfVals}
    /\ resetSeen = FALSE
    /\ zeroRun = (MotionHistory = Uniform(GridW, GridH, Zero2)
                  /\ ConfHistory = Uniform(GridW, GridH, ONE))

\* one frame: the same current fields and configuration are dispatched in both runs
DispatchFrame ==
    /\ frame < MaxFrames
    /\ MotionOut = <<>>
    /\ \E mc \in FrameCurrGrids(width, height), c \in FrameConfVals, reset \in BOOLEAN :
           LET cc == Uniform(width, height, c)
               a == DispatchResult(width, height, mc, cc, MotionHistory, ConfHistory, reset)
               b == DispatchResult(width, height, mc, cc, MotionHistoryB, ConfHistoryB, reset)
           IN  /\ MotionCurr' = mc
               /\ ConfCurr' = cc
               /\ resetHistory' = reset
               /\ MotionOut' = a.motion
               /\ ConfOut' = a.conf
               /\ MotionOutB' = b.motion
               /\ ConfOutB' = b.conf
               /\ resetSeen' = (resetSeen \/ reset)
               /\ zeroRun' = (zeroRun /\ mc = Uniform(width, height, Zero2) /\ c = ONE)
    /\ frame' = frame + 1
    /\ UNCHANGED <<width, height, MotionHistory, ConfHistory, MotionHistoryB, ConfHistoryB,
                   pc, regs, writes>>

\* between frames: this frame's output is the next frame's history
SwapBuffers ==
    /\ MotionOut # <<>>
    /\ MotionHistory' = MotionOut
    /\ ConfHistory' = ConfOut
    /\ MotionHistoryB' = MotionOutB
    /\ ConfHistoryB' = ConfOutB
    /\ MotionOut' = <<>>
    /\ ConfOut' = <<>>
    /\ MotionOutB' = <<>>
    /\ ConfOutB' = <<>>
    /\ UNCHANGED <<width, height, MotionCurr, ConfCurr, resetHistory, pc, regs, writes,
                   frame, resetSeen, zeroRun>>

NextFrames == DispatchFrame \/ SwapBuffers

SpecFrames == InitFrames /\ [][NextFrames]_vars

\* C4: zero-motion fixed point. If the history starts (0,0) with confidence 1.0
\* everywhere and every frame's currMotion is (0,0) with currConf 1.0 everywhere,
\* then after any number of frames, with resetHistory either value in each, the
\* output is (0,0) with confidence 1.0 everywhere (and so is the next history).
C4_ZeroFixedPoint ==
    zeroRun =>
        /\ MotionHistory = Uniform(width, height, Zero2)
        /\ ConfHistory = Uniform(width, height, ONE)
        /\ MotionOut # <<>> =>
               /\ MotionOut = Uniform(width, height, Zero2)
               /\ ConfOut = Uniform(width, height, ONE)

\* a second all-zero frame, without reset, has been dispatched
C4_Witness ==
    /\ zeroRun
    /\ frame >= 2
    /\ ~resetHistory
    /\ MotionOut = Uniform(width, height, Zero2)
    /\ ConfOut = Uniform(width, height, ONE)

\* C9: reset erases the influence of history. Two runs of the frame loop that get
\* the same currMotion / currConf / configuration in every frame but start from
\* different histories have identical outputs in the frame where resetHistory is
\* set and in every later frame, whatever resetHistory is later.
C9_ResetErasesHistory ==
    resetSeen =>
        /\ MotionOut = MotionOutB
        /\ ConfOut = ConfOutB
        /\ MotionOut = <<>> => MotionHistory = MotionHistoryB /\ ConfHistory = ConfHistoryB

\* a frame after the reset frame blended history in, and the two runs agree
C9_Witness ==
    /\ resetSeen
    /\ ~resetHistory
    /\ MotionOut # <<>>
    /\ MotionOut # MotionCurr
    /\ ConfOut # ConfCurr
    /\ MotionOut = MotionOutB
    /\ ConfOut = ConfOutB

\* a sanity check of the two-run composition: without a reset the runs can differ,
\* so this formula is violated
RunsAgreeWithoutReset == MotionOut = MotionOutB /\ ConfOut = ConfOutB

=============================================================================
